---- MODULE Spec2Model ----
(***************************************************************************)
(* fairseq/modules/transformer_sentence_encoder_layer.py                   *)
(*                                                                         *)
(* Adapter and TransformerSentenceEncoderLayer.  The layer's forward is    *)
(* modelled statement by statement (pc is the line about to execute); a    *)
(* tensor is one position, one batch element, EmbeddingDim integers.       *)
(* Collaborators that live outside the file (MultiheadAttention,           *)
(* LayerNorm, utils.get_activation_fn) are modelled from their interface.  *)
(***************************************************************************)
EXTENDS Integers, Sequences, FiniteSets, TLC

\* ------------------------------------------------------------------ bounds
\* input components range over 0..MaxX (first) and {-1, 1} (second)
MaxX == 1
\* configured adapter bottleneck dimensions range over None, 0..MaxAdapterDim
MaxAdapterDim == 1

\* ------------------------------------------------------------- optionals
None == <<>>
Some(v) == <<v>>
IsNone(o) == Len(o) = 0

\* mutant: `is not None` instead of truthiness
Truthy_NotNone(dim) == ~IsNone(dim)

\* Python truthiness of an Optional[int]: None and 0 are falsy
Truthy(dim) == ~IsNone(dim) /\ dim[1] # 0

\* ------------------------------------------------------------ parameters
EmbeddingDim == 2
FfnEmbeddingDim == 2

\* dropout probabilities, in percent; a configuration is a pair
\* <<dropout, activation_dropout>>, one of them disabled
DropoutPs == {0, 50}
DropoutPairs == {<<0, 50>>, <<50, 0>>}

AdapterDims == {None} \cup {Some(d) : d \in 0..MaxAdapterDim}

\* names utils.get_activation_fn resolves (those computable on integers)
KnownActivations == {"relu", "linear"}
ActivationNames == KnownActivations \cup {"swish"}

Inputs == {<<a, b>> : a \in 0..MaxX, b \in {-1, 1}}
\* key_padding_mask: None, or no position is padding
KeyPaddingMasks == {None, <<0>>}
\* additive attention mask over the single (query, key) pair
AttnMasks == {None, <<-1>>}

\* ------------------------------------------------------------ primitives
\* nn.Linear parameters; a deterministic stand-in for the random initialiser
LinearInit(out_features, in_features, seed) ==
    [W |-> [i \in 1..out_features |->
                [j \in 1..in_features |-> ((i + 2 * j + seed) % 3) - 1]],
     b |-> [i \in 1..out_features |-> (i + seed) % 2]]

\* nn.init.zeros_ on both weight and bias
LinearZero(out_features, in_features) ==
    [W |-> [i \in 1..out_features |-> [j \in 1..in_features |-> 0]],
     b |-> [i \in 1..out_features |-> 0]]

RECURSIVE Dot(_, _, _)
Dot(w, v, n) == IF n = 0 THEN 0 ELSE w[n] * v[n] + Dot(w, v, n - 1)

\* nn.Linear.forward: W v + b
Linear(lin, v) == [i \in 1..Len(lin.W) |-> Dot(lin.W[i], v, Len(v)) + lin.b[i]]

VecAdd(u, v) == [i \in 1..Len(u) |-> u[i] + v[i]]

\* utils.get_activation_fn(name): raises (None) on an unknown name
GetActivationFn(name) == IF name \in KnownActivations THEN Some(name) ELSE None

\* the resolved activation applied elementwise
Activation(fn, v) ==
    IF fn = "relu" THEN [i \in 1..Len(v) |-> IF v[i] > 0 THEN v[i] ELSE 0]
    ELSE v

\* mutant: dropout that scales whatever the mode
Dropout_IgnoresMode(v, p, train, keep) ==
    [i \in 1..Len(v) |-> IF keep[i] THEN (v[i] * 100) \div (100 - p) ELSE 0]

\* F.dropout(x, p, training) with the drawn keep mask
KeepAll == [i \in 1..EmbeddingDim |-> TRUE]
KeepMasks(p, train) ==
    IF train /\ p > 0 THEN [1..EmbeddingDim -> BOOLEAN] ELSE {KeepAll}
Dropout(v, p, train, keep) ==
    IF ~train THEN v
    ELSE [i \in 1..Len(v) |-> IF keep[i] THEN (v[i] * 100) \div (100 - p) ELSE 0]

Sgn(n) == IF n > 0 THEN 1 ELSE IF n < 0 THEN -1 ELSE 0

\* LayerNorm over two features: (v - mean) / sqrt(var + eps) is (+-1, -+1)
\* up to eps, or (0, 0) when the features are equal; then weight and bias
LayerNormInit(seed) == [weight |-> <<1 + seed, 1>>, bias |-> <<0, seed>>]
LayerNorm(ln, v) ==
    LET s == Sgn(v[1] - v[2])
    IN  <<s * ln.weight[1] + ln.bias[1], (0 - s) * ln.weight[2] + ln.bias[2]>>

\* MultiheadAttention over one position: softmax over one key is 1, so the
\* output is out_proj(v_proj(value)); weights only when requested
MultiheadAttentionInit == [v_proj |-> LinearInit(EmbeddingDim, EmbeddingDim, 0),
                           out_proj |-> LinearInit(EmbeddingDim, EmbeddingDim, 1)]
MultiheadAttention(mha, call) ==
    [out |-> Linear(mha.out_proj, Linear(mha.v_proj, call.value)),
     weights |-> IF call.need_weights THEN <<1>> ELSE None]

\* ---------------------------------------------------------------- Adapter
\* Adapter.__init__: None when get_activation_fn raises
AdapterInit(embedding_dim, adapter_dim, activation_fn) ==
    IF IsNone(GetActivationFn(activation_fn)) THEN None
    ELSE Some([fc1 |-> LinearInit(adapter_dim, embedding_dim, 2),
               fc2 |-> LinearInit(embedding_dim, adapter_dim, 1),
               activation_fn |-> GetActivationFn(activation_fn)[1]])

\* mutant: the bottleneck without the shortcut
AdapterForward_NoResidual(a, v) ==
    Linear(a.fc2, Activation(a.activation_fn, Linear(a.fc1, v)))

\* Adapter.forward
AdapterForward(a, v) ==
    VecAdd(Linear(a.fc2, Activation(a.activation_fn, Linear(a.fc1, v))), v)

\* ------------------------------------------- TransformerSentenceEncoderLayer
Configs ==
    {c \in [embedding_dim : {EmbeddingDim},
            ffn_embedding_dim : {FfnEmbeddingDim},
            dropout : DropoutPs,
            activation_dropout : DropoutPs,
            activation_fn : ActivationNames,
            self_attn_adapter_dim : AdapterDims,
            ffn_adapter_dim : AdapterDims] :
        <<c.dropout, c.activation_dropout>> \in DropoutPairs}

\* mutant: the activation name is stored and resolved on first use
LayerInit_Lazy(c) ==
    Some(
        [embedding_dim |-> c.embedding_dim,
         dropout |-> c.dropout,
         activation_dropout |-> c.activation_dropout,
         activation_fn |-> c.activation_fn,
         self_attn |-> MultiheadAttentionInit,
         self_attn_layer_norm |-> LayerNormInit(1),
         fc1 |-> LinearInit(c.ffn_embedding_dim, c.embedding_dim, 1),
         fc2 |-> LinearInit(c.embedding_dim, c.ffn_embedding_dim, 2),
         final_layer_norm |-> LayerNormInit(0),
         self_attn_adapter |-> None,
         ff_adapter |-> None])

\* TransformerSentenceEncoderLayer.__init__: None when line 58 raises; an
\* attribute that is never assigned is None
LayerInit(c) ==
    IF IsNone(GetActivationFn(c.activation_fn)) THEN None
    ELSE Some(
        [embedding_dim |-> c.embedding_dim,
         dropout |-> c.dropout,
         activation_dropout |-> c.activation_dropout,
         activation_fn |-> GetActivationFn(c.activation_fn)[1],
         self_attn |-> MultiheadAttentionInit,
         self_attn_layer_norm |-> LayerNormInit(1),
         fc1 |-> LinearInit(c.ffn_embedding_dim, c.embedding_dim, 1),
         fc2 |-> LinearInit(c.embedding_dim, c.ffn_embedding_dim, 2),
         final_layer_norm |-> LayerNormInit(0),
         self_attn_adapter |->
             IF Truthy(c.self_attn_adapter_dim)
             THEN AdapterInit(c.embedding_dim, c.self_attn_adapter_dim[1], c.activation_fn)
             ELSE None,
         ff_adapter |->
             IF Truthy(c.ffn_adapter_dim)
             THEN AdapterInit(c.embedding_dim, c.ffn_adapter_dim[1], c.activation_fn)
             ELSE None])

\* hasattr(self, name)
HasAttr(attr) == ~IsNone(attr)

VARIABLES
    pc,         \* "new", "ctor_failed", "idle", or the line forward is about to run
    cfg,        \* the constructor arguments, once __init__ was called
    layer,      \* the constructed layer, None while there is none
    training,   \* self.training
    bypass,     \* the adapters' forward was replaced by the identity
    args,       \* the arguments of the current / last forward call
    x,          \* forward's local x
    residual,   \* forward's local residual
    attn,       \* forward's local attn
    attn_call,  \* the keyword arguments self.self_attn was called with, and its weights
    keeps,      \* the keep masks F.dropout drew in this call, in order
    log,        \* the steps this call executed, each with its input and output
    outcome,    \* "none", "running", "returned", "AssertionError"
    result,     \* the returned pair
    prev,       \* arguments and result of the last call that returned since the
                \* layer was put in inference mode
    adapter,    \* a stand-alone Adapter instance
    a_cfg,      \* the arguments Adapter.__init__ was called with
    a_x,        \* the last input of the stand-alone adapter
    a_y         \* its output

vars == <<pc, cfg, layer, training, bypass, args, x, residual, attn, attn_call,
          keeps, log, outcome, result, prev, adapter, a_cfg, a_x, a_y>>

callVars == <<args, x, residual, attn, attn_call, keeps, log, outcome, result>>
adapterVars == <<adapter, a_cfg, a_x, a_y>>

ZeroVec == [i \in 1..EmbeddingDim |-> 0]
NoArgs == [x |-> ZeroVec, self_attn_mask |-> None,
           self_attn_padding_mask |-> None, extra_attention_mask |-> None]

Init ==
    /\ pc = "new"
    /\ cfg = None
    /\ layer = None
    /\ training = TRUE
    /\ bypass = FALSE
    /\ args = NoArgs
    /\ x = ZeroVec
    /\ residual = ZeroVec
    /\ attn = None
    /\ attn_call = None
    /\ keeps = <<>>
    /\ log = <<>>
    /\ outcome = "none"
    /\ result = None
    /\ prev = None
    /\ adapter = None
    /\ a_cfg = None
    /\ a_x = None
    /\ a_y = None

self == layer[1]

Entry(step, in, out) == [step |-> step, in |-> in, out |-> out]

\* TransformerSentenceEncoderLayer(...)
Construct ==
    /\ pc = "new"
    /\ \E c \in Configs :
        /\ cfg' = Some(c)
        /\ layer' = LayerInit(c)
        /\ pc' = IF IsNone(LayerInit(c)) THEN "ctor_failed" ELSE "idle"
    /\ UNCHANGED <<training, bypass, callVars, prev, adapterVars>>

\* layer.train() / layer.eval(), between calls
SetTraining ==
    /\ pc = "idle"
    /\ training' = ~training
    /\ prev' = None
    /\ UNCHANGED <<pc, cfg, layer, bypass, callVars, adapterVars>>

\* the adapters' forward is replaced by the identity, between calls
BypassAdapters ==
    /\ pc = "idle"
    /\ ~bypass
    /\ HasAttr(self.self_attn_adapter) \/ HasAttr(self.ff_adapter)
    /\ bypass' = TRUE
    /\ prev' = None
    /\ UNCHANGED <<pc, cfg, layer, training, callVars, adapterVars>>

\* forward(x, self_attn_mask, self_attn_padding_mask, extra_attention_mask)
Call ==
    /\ pc = "idle"
    /\ \E v \in Inputs, m \in {None, <<0>>}, kpm \in KeyPaddingMasks, am \in AttnMasks :
        /\ args' = [x |-> v, self_attn_mask |-> m,
                    self_attn_padding_mask |-> kpm, extra_attention_mask |-> am]
        /\ x' = v
    /\ residual' = ZeroVec
    /\ attn' = None
    /\ attn_call' = None
    /\ keeps' = <<>>
    /\ log' = <<>>
    /\ outcome' = "running"
    /\ result' = None
    /\ pc' = "L93"
    /\ UNCHANGED <<cfg, layer, training, bypass, prev, adapterVars>>

\* mutant: the precondition is not checked
L93_NoAssert ==
    /\ pc = "L93"
    /\ pc' = "L94"
    /\ UNCHANGED <<cfg, layer, training, bypass, args, x, residual, attn, attn_call,
                   keeps, log, outcome, result, prev, adapterVars>>

\* assert self_attn_mask is None
L93 ==
    /\ pc = "L93"
    /\ IF IsNone(args.self_attn_mask)
       THEN pc' = "L94" /\ outcome' = outcome
       ELSE pc' = "idle" /\ outcome' = "AssertionError"
    /\ UNCHANGED <<cfg, layer, training, bypass, args, x, residual, attn, attn_call,
                   keeps, log, result, prev, adapterVars>>

\* residual = x
L94 ==
    /\ pc = "L94"
    /\ residual' = x
    /\ pc' = "L95"
    /\ UNCHANGED <<cfg, layer, training, bypass, args, x, attn, attn_call,
                   keeps, log, outcome, result, prev, adapterVars>>

\* mutant: the two masks passed under each other's keyword
L95_MasksSwapped ==
    /\ pc = "L95"
    /\ LET call == [query |-> x, key |-> x, value |-> x,
                    key_padding_mask |-> args.extra_attention_mask,
                    need_weights |-> FALSE,
                    attn_mask |-> args.self_attn_padding_mask]
           r == MultiheadAttention(layer[1].self_attn, call)
       IN  /\ x' = r.out
           /\ attn' = r.weights
           /\ attn_call' = Append(attn_call, [call |-> call, weights |-> r.weights])
           /\ log' = Append(log, [step |-> "self_attn", in |-> x, out |-> r.out])
    /\ pc' = "L103"
    /\ UNCHANGED <<cfg, layer, training, bypass, args, residual,
                   keeps, outcome, result, prev, adapterVars>>

\* x, attn = self.self_attn(query=x, key=x, value=x, ...)
L95 ==
    /\ pc = "L95"
    /\ LET call == [query |-> x, key |-> x, value |-> x,
                    key_padding_mask |-> args.self_attn_padding_mask,
                    need_weights |-> FALSE,
                    attn_mask |-> args.extra_attention_mask]
           r == MultiheadAttention(self.self_attn, call)
       IN  /\ x' = r.out
           /\ attn' = r.weights
           /\ attn_call' = Append(attn_call, [call |-> call, weights |-> r.weights])
           /\ log' = Append(log, Entry("self_attn", x, r.out))
    /\ pc' = "L103"
    /\ UNCHANGED <<cfg, layer, training, bypass, args, residual,
                   keeps, outcome, result, prev, adapterVars>>

\* one adapter application, or the identity it was replaced by
ApplyAdapter(a, v) == IF bypass THEN v ELSE AdapterForward(a, v)

\* mutant: lines 103-104 and 105 exchanged, dropout first and then the adapter
L103_DropoutFirst ==
    /\ pc = "L103"
    /\ \E keep \in KeepMasks(self.dropout, training) :
        LET d == Dropout(x, self.dropout, training, keep)
            y == IF HasAttr(self.self_attn_adapter)
                 THEN ApplyAdapter(self.self_attn_adapter[1], d) ELSE d
        IN  /\ x' = y
            /\ keeps' = Append(keeps, keep)
            /\ log' = Append(log, Entry("dropout", x, d))
                        \o (IF HasAttr(self.self_attn_adapter)
                            THEN <<Entry("self_attn_adapter", d, y)>> ELSE <<>>)
    /\ pc' = "L106"
    /\ UNCHANGED <<cfg, layer, training, bypass, args, residual, attn, attn_call,
                   outcome, result, prev, adapterVars>>

\* if hasattr(self, 'self_attn_adapter'): x = self.self_attn_adapter(x)
L103 ==
    /\ pc = "L103"
    /\ IF HasAttr(self.self_attn_adapter)
       THEN /\ x' = ApplyAdapter(self.self_attn_adapter[1], x)
            /\ log' = Append(log, Entry("self_attn_adapter", x, x'))
       ELSE UNCHANGED <<x, log>>
    /\ pc' = "L105"
    /\ UNCHANGED <<cfg, layer, training, bypass, args, residual, attn, attn_call,
                   keeps, outcome, result, prev, adapterVars>>

\* x = F.dropout(x, p=self.dropout, training=self.training)
DropoutStep(line, next, name, p) ==
    /\ pc = line
    /\ \E keep \in KeepMasks(p, training) :
        /\ x' = Dropout(x, p, training, keep)
        /\ keeps' = Append(keeps, keep)
        /\ log' = Append(log, Entry(name, x, x'))
    /\ pc' = next
    /\ UNCHANGED <<cfg, layer, training, bypass, args, residual, attn, attn_call,
                   outcome, result, prev, adapterVars>>

\* a statement x = f(x)
Assign(line, next, name, value) ==
    /\ pc = line
    /\ x' = value
    /\ log' = Append(log, Entry(name, x, value))
    /\ pc' = next
    /\ UNCHANGED <<cfg, layer, training, bypass, args, residual, attn, attn_call,
                   keeps, outcome, result, prev, adapterVars>>

L105 == DropoutStep("L105", "L106", "dropout", self.dropout)

\* x = residual + x
L106 == Assign("L106", "L107", "residual_add", VecAdd(residual, x))

\* x = self.self_attn_layer_norm(x)
L107 == Assign("L107", "L109", "self_attn_layer_norm",
               LayerNorm(self.self_attn_layer_norm, x))

\* mutant: the anchor is not renewed after the normalization
L109_Skipped ==
    /\ pc = "L109"
    /\ pc' = "L110"
    /\ UNCHANGED <<cfg, layer, training, bypass, args, x, residual, attn, attn_call,
                   keeps, log, outcome, result, prev, adapterVars>>

\* residual = x
L109 ==
    /\ pc = "L109"
    /\ residual' = x
    /\ pc' = "L110"
    /\ UNCHANGED <<cfg, layer, training, bypass, args, x, attn, attn_call,
                   keeps, log, outcome, result, prev, adapterVars>>

\* x = self.activation_fn(self.fc1(x))
L110 == Assign("L110", "L111", "fc1_activation",
               Activation(self.activation_fn, Linear(self.fc1, x)))

\* mutant: the activation dropout is missing
L111_Skipped ==
    /\ pc = "L111"
    /\ pc' = "L112"
    /\ UNCHANGED <<cfg, layer, training, bypass, args, x, residual, attn, attn_call,
                   keeps, log, outcome, result, prev, adapterVars>>

\* x = F.dropout(x, p=self.activation_dropout, training=self.training)
L111 == DropoutStep("L111", "L112", "activation_dropout", self.activation_dropout)

\* x = self.fc2(x)
L112 == Assign("L112", "L113", "fc2", Linear(self.fc2, x))

\* x = F.dropout(x, p=self.dropout, training=self.training)
L113 == DropoutStep("L113", "L114", "dropout", self.dropout)

\* if hasattr(self, 'ff_adapter'): x = self.ff_adapter(x)
L114 ==
    /\ pc = "L114"
    /\ IF HasAttr(self.ff_adapter)
       THEN /\ x' = ApplyAdapter(self.ff_adapter[1], x)
            /\ log' = Append(log, Entry("ff_adapter", x, x'))
       ELSE UNCHANGED <<x, log>>
    /\ pc' = "L116"
    /\ UNCHANGED <<cfg, layer, training, bypass, args, residual, attn, attn_call,
                   keeps, outcome, result, prev, adapterVars>>

\* mutant: the residual add indented into the `if hasattr` block
L116_InsideIf ==
    /\ pc = "L116"
    /\ IF HasAttr(self.ff_adapter)
       THEN /\ x' = VecAdd(residual, x)
            /\ log' = Append(log, Entry("residual_add", x, x'))
       ELSE UNCHANGED <<x, log>>
    /\ pc' = "L117"
    /\ UNCHANGED <<cfg, layer, training, bypass, args, residual, attn, attn_call,
                   keeps, outcome, result, prev, adapterVars>>

\* x = residual + x
L116 == Assign("L116", "L117", "residual_add", VecAdd(residual, x))

\* x = self.final_layer_norm(x)
L117 == Assign("L117", "L118", "final_layer_norm",
               LayerNorm(self.final_layer_norm, x))

\* return x, attn
L118 ==
    /\ pc = "L118"
    /\ result' = Some([x |-> x, attn |-> attn])
    /\ outcome' = "returned"
    /\ log' = Append(log, Entry("return", x, x))
    /\ prev' = IF training THEN prev
               ELSE Some([args |-> args, result |-> [x |-> x, attn |-> attn]])
    /\ pc' = "idle"
    /\ UNCHANGED <<cfg, layer, training, bypass, args, x, residual, attn, attn_call,
                   keeps, adapterVars>>

Forward ==
    \/ Call \/ L93 \/ L94 \/ L95 \/ L103 \/ L105 \/ L106 \/ L107 \/ L109
    \/ L110 \/ L111 \/ L112 \/ L113 \/ L114 \/ L116 \/ L117 \/ L118

Next == Construct \/ SetTraining \/ BypassAdapters \/ Forward

Spec == Init /\ [][Next]_vars

\* ------------------------------------------------------ stand-alone Adapter
\* Adapter(embedding_dim, adapter_dim, activation_fn)
AdapterConstruct ==
    /\ IsNone(a_cfg)
    /\ \E d \in 1..(MaxAdapterDim + 1), f \in ActivationNames :
        /\ a_cfg' = Some([embedding_dim |-> EmbeddingDim, adapter_dim |-> d,
                          activation_fn |-> f])
        /\ adapter' = AdapterInit(EmbeddingDim, d, f)
    /\ UNCHANGED <<pc, cfg, layer, training, bypass, callVars, prev, a_x, a_y>>

\* parameter values a Linear of the given shape may hold after initialisation
\* or loading
LinearParams(out_features, in_features) ==
    {LinearZero(out_features, in_features)}
        \cup {LinearInit(out_features, in_features, s) : s \in 0..2}

\* the adapter's parameters are (re)initialised or loaded
AdapterSetParams ==
    /\ ~IsNone(adapter)
    /\ \E p1 \in LinearParams(a_cfg[1].adapter_dim, EmbeddingDim),
          p2 \in LinearParams(EmbeddingDim, a_cfg[1].adapter_dim) :
        adapter' = Some([adapter[1] EXCEPT !.fc1 = p1, !.fc2 = p2])
    /\ a_x' = None
    /\ a_y' = None
    /\ UNCHANGED <<pc, cfg, layer, training, bypass, callVars, prev, a_cfg>>

\* adapter(x)
AdapterCall ==
    /\ ~IsNone(adapter)
    /\ \E v \in Inputs :
        /\ a_x' = Some(v)
        /\ a_y' = Some(AdapterForward(adapter[1], v))
    /\ UNCHANGED <<pc, cfg, layer, training, bypass, callVars, prev, adapter, a_cfg>>

NextAdapter == Construct \/ AdapterConstruct \/ AdapterSetParams \/ AdapterCall

SpecAdapter == Init /\ [][NextAdapter]_vars

\* ================================================================= claims
InCall == outcome = "running"
Returned == pc = "idle" /\ outcome = "returned"

StepNames == [i \in DOMAIN log |-> log[i].step]
Positions(name) == {i \in DOMAIN log : log[i].step = name}
\* the position of the n-th entry called name, as a set (empty until it is logged)
Nth(name, n) ==
    {i \in Positions(name) : Cardinality({k \in Positions(name) : k <= i}) = n}

\* entry i was logged and the n-th entry called name was not logged before it
Precedes(i, name, n) == \A j \in Nth(name, n) : i < j
\* the n-th entry called name was logged before entry i
Follows(i, name, n) == \E j \in Nth(name, n) : j < i

HasSelfAttnAdapter == HasAttr(self.self_attn_adapter)
HasFfAdapter == HasAttr(self.ff_adapter)

\* every step the call was to run after the adapters is in the log
AdaptersApplied ==
    /\ HasSelfAttnAdapter =>
        /\ Positions("self_attn_adapter") # {}
        /\ Nth("dropout", 1) # {} /\ Nth("residual_add", 1) # {}
    /\ HasFfAdapter =>
        /\ Positions("ff_adapter") # {}
        /\ Nth("dropout", 2) # {} /\ Nth("residual_add", 2) # {}

\* C1 as stated: each adapter is applied before the output dropout of its
\* sub-block and before the residual add of its sub-block.
C1_AdaptersBeforeDropout ==
    /\ \A i \in Positions("self_attn_adapter") :
        Precedes(i, "dropout", 1) /\ Precedes(i, "residual_add", 1)
    /\ \A i \in Positions("ff_adapter") :
        Precedes(i, "dropout", 2) /\ Precedes(i, "residual_add", 2)
    /\ Returned => AdaptersApplied

\* C1 amended: the self-attention-side adapter is applied before the output
\* dropout and before the first residual add; the feed-forward-side adapter
\* is applied after the output dropout of the feed-forward sub-block and
\* before the second residual add; a call that returns applied every adapter
\* the layer has.
C1_AdapterPlacement ==
    /\ \A i \in Positions("self_attn_adapter") :
        Precedes(i, "dropout", 1) /\ Precedes(i, "residual_add", 1)
    /\ \A i \in Positions("ff_adapter") :
        Follows(i, "dropout", 2) /\ Precedes(i, "residual_add", 2)
    /\ Returned => AdaptersApplied

C1_Witness ==
    /\ Returned
    /\ HasSelfAttnAdapter /\ HasFfAdapter /\ ~bypass
    /\ training /\ self.dropout > 0
    /\ Positions("self_attn_adapter") # {} /\ Positions("ff_adapter") # {}

ExpectedOrder ==
    <<"self_attn">>
    \o (IF HasSelfAttnAdapter THEN <<"self_attn_adapter">> ELSE <<>>)
    \o <<"dropout", "residual_add", "self_attn_layer_norm", "fc1_activation",
         "activation_dropout", "fc2", "dropout">>
    \o (IF HasFfAdapter THEN <<"ff_adapter">> ELSE <<>>)
    \o <<"residual_add", "final_layer_norm", "return">>

\* C2: a call that passed the precondition runs self-attention, (adapter),
\* dropout, residual add, normalization, first affine + nonlinearity,
\* activation dropout, second affine, dropout, (adapter), residual add,
\* normalization, return: in this order, each once, the adapter steps present
\* exactly when the adapter exists.
C2_StepOrder ==
    /\ (InCall \/ Returned) =>
        /\ Len(log) <= Len(ExpectedOrder)
        /\ StepNames = SubSeq(ExpectedOrder, 1, Len(log))
    /\ Returned => StepNames = ExpectedOrder

C2_Witness ==
    /\ Returned
    /\ HasSelfAttnAdapter /\ ~HasFfAdapter
    /\ Positions("self_attn_adapter") # {} /\ Positions("ff_adapter") = {}
    /\ Len(log) = Len(ExpectedOrder)

\* C3: a call with a non-absent self_attn_mask fails, whatever the other
\* arguments and the adapters, before self-attention or any other sub-module
\* runs and without a result.
C3_MaskRejected ==
    (pc \notin {"new", "ctor_failed"} /\ ~IsNone(args.self_attn_mask)) =>
        /\ pc \in {"L93", "idle"}
        /\ pc = "idle" => outcome = "AssertionError"
        /\ log = <<>> /\ attn_call = <<>> /\ keeps = <<>>
        /\ IsNone(result)

C3_Witness ==
    /\ pc = "idle" /\ outcome = "AssertionError"
    /\ ~IsNone(args.self_attn_mask)
    /\ ~IsNone(args.self_attn_padding_mask) /\ ~IsNone(args.extra_attention_mask)
    /\ HasSelfAttnAdapter /\ HasFfAdapter

\* C4: from construction on, through returning and failing calls, the layer
\* has the self-attention-side adapter exactly when self_attn_adapter_dim was
\* neither None nor 0, and the feed-forward-side adapter exactly when
\* ffn_adapter_dim was neither None nor 0, each decided on its own.
C4_AdapterPresence ==
    ~IsNone(layer) =>
        /\ HasSelfAttnAdapter <=>
            (cfg[1].self_attn_adapter_dim # None /\ cfg[1].self_attn_adapter_dim # <<0>>)
        /\ HasFfAdapter <=>
            (cfg[1].ffn_adapter_dim # None /\ cfg[1].ffn_adapter_dim # <<0>>)

C4_Witness ==
    /\ Returned /\ ~IsNone(prev)
    /\ cfg[1].self_attn_adapter_dim = <<0>> /\ ~HasSelfAttnAdapter
    /\ cfg[1].ffn_adapter_dim = <<1>> /\ HasFfAdapter

\* the forward pass written as one expression, an adapter-insertion step
\* taken only where the flag says so
RefForward(l, useSelfAttnAdapter, useFfAdapter, in, train, ks) ==
    LET a0 == MultiheadAttention(l.self_attn,
                  [query |-> in, key |-> in, value |-> in, key_padding_mask |-> None,
                   need_weights |-> FALSE, attn_mask |-> None]).out
        a1 == IF useSelfAttnAdapter THEN AdapterForward(l.self_attn_adapter[1], a0) ELSE a0
        a2 == Dropout(a1, l.dropout, train, ks[1])
        a3 == LayerNorm(l.self_attn_layer_norm, VecAdd(in, a2))
        f0 == Activation(l.activation_fn, Linear(l.fc1, a3))
        f1 == Dropout(f0, l.activation_dropout, train, ks[2])
        f2 == Dropout(Linear(l.fc2, f1), l.dropout, train, ks[3])
        f3 == IF useFfAdapter THEN AdapterForward(l.ff_adapter[1], f2) ELSE f2
    IN  LayerNorm(l.final_layer_norm, VecAdd(a3, f3))

Configured(dim) == dim # None /\ dim # <<0>>

\* C5: a layer without adapters and a layer whose adapters are replaced by
\* the identity both return the plain forward pass (no adapter-insertion
\* step) of the same input, mode, dropout draws and parameters, with the same
\* absent weights; an adapter whose dimension is None or 0 contributes no step.
C5_NoAdapterEquivalence ==
    /\ pc = "L118" =>
        /\ x = RefForward(self,
                   Configured(cfg[1].self_attn_adapter_dim) /\ ~bypass,
                   Configured(cfg[1].ffn_adapter_dim) /\ ~bypass,
                   args.x, training, keeps)
        /\ attn = None
    /\ Returned => result = Some([x |-> x, attn |-> attn])

C5_Witness ==
    /\ Returned /\ bypass
    /\ HasSelfAttnAdapter /\ HasFfAdapter
    /\ training
    /\ x # RefForward(self, TRUE, TRUE, args.x, training, keeps)

PostAttn == {"L103", "L105", "L106", "L107", "L109", "L110", "L111", "L112",
             "L113", "L114", "L116", "L117", "L118"}

\* C6: a call that passed the precondition invokes self-attention once, with
\* query = key = value = the incoming representation, the padding mask as
\* key_padding_mask, the extra attention mask as attn_mask and weights not
\* requested; the second component of the returned pair is the weights value
\* of that invocation, untouched by the later steps.
C6_AttentionCall ==
    /\ pc \in {"L93", "L94", "L95"} => attn_call = <<>>
    /\ (pc \in PostAttn \/ Returned) =>
        /\ Len(attn_call) = 1
        /\ attn_call[1].call.query = args.x
        /\ attn_call[1].call.key = args.x
        /\ attn_call[1].call.value = args.x
        /\ attn_call[1].call.key_padding_mask = args.self_attn_padding_mask
        /\ attn_call[1].call.attn_mask = args.extra_attention_mask
        /\ attn_call[1].call.need_weights = FALSE
        /\ attn = attn_call[1].weights
    /\ Returned => Len(result) = 1 /\ result[1].attn = attn_call[1].weights

C6_Witness ==
    /\ Returned
    /\ ~IsNone(args.self_attn_padding_mask) /\ IsNone(args.extra_attention_mask)
    /\ HasSelfAttnAdapter
    /\ Len(attn_call) = 1 /\ IsNone(result[1].attn)

RECURSIVE SumTo(_, _)
SumTo(f, n) == IF n = 0 THEN 0 ELSE f[n] + SumTo(f, n - 1)

InDim(lin) == Len(lin.W[1])
\* the affine transform maps every vector of -1..1 entries to zero
ZeroOutput(lin) ==
    \A u \in [1..InDim(lin) -> -1..1] : \A i \in DOMAIN lin.W : Linear(lin, u)[i] = 0

\* C7: Adapter.forward(x) is up_project(nonlinearity(down_project(x))) + x
\* elementwise, and equals x when both affine transforms produce zero.
C7_AdapterResidual ==
    ~IsNone(a_y) =>
        LET a == adapter[1]
            v == a_x[1]
            n == a_cfg[1].adapter_dim
            down == [k \in 1..n |->
                        SumTo([j \in 1..EmbeddingDim |-> a.fc1.W[k][j] * v[j]], EmbeddingDim)
                            + a.fc1.b[k]]
            h == [k \in 1..n |->
                        IF a_cfg[1].activation_fn = "relu" /\ down[k] < 0 THEN 0 ELSE down[k]]
        IN  /\ \A i \in 1..EmbeddingDim :
                a_y[1][i] = SumTo([k \in 1..n |-> a.fc2.W[i][k] * h[k]], n) + a.fc2.b[i] + v[i]
            /\ (ZeroOutput(a.fc1) /\ ZeroOutput(a.fc2)) => a_y[1] = v

C7_Witness ==
    /\ ~IsNone(a_y)
    /\ ZeroOutput(adapter[1].fc1) /\ ZeroOutput(adapter[1].fc2)
    /\ a_x[1] # ZeroVec /\ a_y[1] = a_x[1]
    /\ a_cfg[1].activation_fn = "relu"

IsDropoutStep(e) == e.step \in {"dropout", "activation_dropout"}

\* C8: in inference mode every dropout application returns its input, and a
\* call with the arguments of an earlier inference-mode call is about to
\* return what that call returned, whatever the adapters.
C8_InferenceDeterminism ==
    ((InCall \/ Returned) /\ pc # "idle" /\ ~training) =>
        /\ \A i \in DOMAIN log : IsDropoutStep(log[i]) => log[i].out = log[i].in
        /\ (pc = "L118" /\ ~IsNone(prev) /\ prev[1].args = args) =>
            prev[1].result = [x |-> x, attn |-> attn]

C8_Witness ==
    /\ pc = "L118" /\ ~training
    /\ ~IsNone(prev) /\ prev[1].args = args
    /\ HasSelfAttnAdapter /\ HasFfAdapter /\ ~bypass
    /\ self.dropout > 0
    /\ Cardinality({i \in DOMAIN log : IsDropoutStep(log[i])}) = 3

\* C9: constructing a layer or an Adapter with an activation name that does
\* not resolve leaves no instance, so forward cannot be called on one.
C9_UnknownActivationFailsAtConstruction ==
    /\ (~IsNone(cfg) /\ cfg[1].activation_fn \notin KnownActivations) =>
        /\ IsNone(layer) /\ pc = "ctor_failed"
        /\ ~ENABLED Forward
    /\ (~IsNone(a_cfg) /\ a_cfg[1].activation_fn \notin KnownActivations) =>
        /\ IsNone(adapter) /\ IsNone(a_y)
        /\ ~ENABLED AdapterCall

C9_Witness ==
    /\ ~IsNone(cfg) /\ cfg[1].activation_fn = "swish"
    /\ Configured(cfg[1].self_attn_adapter_dim)
    /\ pc = "ctor_failed"
    /\ ~IsNone(a_cfg) /\ a_cfg[1].activation_fn = "swish" /\ IsNone(adapter)

NormOut == log[CHOOSE i \in Positions("self_attn_layer_norm") : TRUE].out

\* C10: the first residual add adds the incoming representation, the second
\* adds the output of the post-attention normalization; neither anchor
\* changes between its capture and its use.
C10_ResidualAnchors ==
    /\ pc \in {"L95", "L103", "L105", "L106"} => residual = args.x
    /\ pc \in {"L110", "L111", "L112", "L113", "L114", "L116"} => residual = NormOut
    /\ (InCall \/ Returned) =>
        /\ \A i \in Nth("residual_add", 1) : log[i].out = VecAdd(args.x, log[i].in)
        /\ \A i \in Nth("residual_add", 2) : log[i].out = VecAdd(NormOut, log[i].in)

C10_Witness ==
    /\ Returned
    /\ Nth("residual_add", 2) # {}
    /\ NormOut # args.x
    /\ HasSelfAttnAdapter /\ HasFfAdapter /\ ~bypass
    /\ \E i \in Nth("residual_add", 1) : log[i].in # ZeroVec
    /\ \E i \in Nth("residual_add", 2) : log[i].in # ZeroVec

====
